---- MODULE Spec2Model ----
(***************************************************************************)
(* Model of the interactive card playground (src/src/App.tsx):             *)
(*   - useObjectUrl: the object-URL lifecycle of the selected file,        *)
(*   - ImagePicker and the App's tuning panel (Reset, Defaults, toggles),  *)
(*   - InteractiveCard: the tilt signal (mx, my) written by pointer,       *)
(*     touch and device-orientation handlers, and the window listeners     *)
(*     that arm and attach the device-orientation handler.                 *)
(* Numbers that the code divides are kept as extended rationals <<n, d>>:  *)
(* d > 0 is the reduced fraction n/d, <<1,0>> is Infinity, <<-1,0>> is     *)
(* -Infinity and <<0,0>> is NaN, which is what a JavaScript division       *)
(* gives for a zero divisor.                                               *)
(***************************************************************************)
EXTENDS Integers, Sequences, FiniteSets, TLC

\* ---- bounds of the model ----
MaxCoord == 3
MaxOri == 2
MaxMounts == 2
MaxFiles == 2
MaxUrls == 3

\* ---- constants of the program ----
ClampDeg == 45
DefaultIntensity == 30
SliderMin == 6
SliderMax == 35

\* ---- nullable values: <<>> is null/undefined, <<x>> is the value x ----
Null == <<>>
Some(x) == <<x>>

\* ---- JavaScript number arithmetic on extended rationals ----
Abs(n) == IF n < 0 THEN -n ELSE n
Sign(n) == IF n > 0 THEN 1 ELSE IF n < 0 THEN -1 ELSE 0
Min(a, b) == IF a < b THEN a ELSE b
Max(a, b) == IF a > b THEN a ELSE b

RECURSIVE GCD(_, _)
GCD(a, b) == IF b = 0 THEN a ELSE GCD(b, a % b)

\* a / b for integers a, b (b = 0: +-Infinity, or NaN for 0/0)
Rat(n, d) ==
    IF d = 0 THEN <<Sign(n), 0>>
    ELSE LET g == GCD(Abs(n), Abs(d))
             s == IF d < 0 THEN -1 ELSE 1
         IN  <<(s * n) \div g, (s * d) \div g>>

\* q * 2 - 1 (Infinity and NaN are absorbing)
TimesTwoMinusOne(q) == IF q[2] = 0 THEN q ELSE Rat(2 * q[1] - q[2], q[2])

Zero == <<0, 1>>
One == <<1, 1>>
MinusOne == <<-1, 1>>
InUnit(q) == q[2] > 0 /\ -q[2] <= q[1] /\ q[1] <= q[2]

\* ---- input domains ----
Coords == 0..MaxCoord
\* bounding rectangles of the container: a regular one and a collapsed one
Rects == {[left |-> 1, top |-> 1, width |-> w, height |-> w] : w \in {0, 2}}
\* orientation angles in degrees: -45, -15, 45, ...
OriVals == {15 * k * (k + 1) - 45 : k \in 0..MaxOri}
OriInputs == {Null} \cup {Some(v) : v \in OriVals}
IntensityValues == SliderMin..SliderMax

\* mime types as character sequences
ImagePrefix == <<"i", "m", "a", "g", "e", "/">>
MimeTypes == { <<"i", "m", "a", "g", "e", "/", "p", "n", "g">>,
               <<"t", "e", "x", "t", "/", "p", "l", "a", "i", "n">>,
               <<"i", "m", "a", "g", "e">>,
               <<>> }
StartsWith(s, p) == Len(s) >= Len(p) /\ SubSeq(s, 1, Len(p)) = p
Files == [id : 1..MaxFiles, type : MimeTypes]
FileInputs == {Null} \cup {Some(f) : f \in Files}

ListenerTypes == {"pointerdown", "pointermove", "deviceorientation"}
ResetKinds == {"pointerleave", "pointercancel", "pointerup", "touchend"}

VARIABLES
    appMounted,          \* the App component is mounted
    file,                \* App state: selected file (nullable)
    effFile,             \* dependency value the useObjectUrl effect last ran with
    url,                 \* useObjectUrl state: displayable locator (nullable)
    objUrl,              \* locator captured by the pending effect cleanup (nullable)
    live,                \* locators created and not yet revoked
    created,             \* number of locators created so far
    intensity, glare, dragEnabled,   \* render parameters
    isOver,              \* ImagePicker drag-over highlight
    mounted,             \* an InteractiveCard is mounted
    mountCount,          \* number of card mounts so far; identifies the effect closures
    mx, my,              \* tilt signal
    initialOrientation,  \* device orientation baseline (nullable)
    armed,               \* closure variable of the orientation effect
    listeners,           \* window listeners: <<type, mount>>
    downSeen,            \* history: a window pointerdown occurred since the last mount
    ev                   \* history: the last event, with the orientation inputs

appVars == <<appMounted, file, effFile, url, objUrl, live, created,
             intensity, glare, dragEnabled, isOver>>
cardVars == <<mounted, mountCount, mx, my, initialOrientation, armed, listeners, downSeen>>
vars == <<appMounted, file, effFile, url, objUrl, live, created,
          intensity, glare, dragEnabled, isOver,
          mounted, mountCount, mx, my, initialOrientation, armed, listeners,
          downSeen, ev>>

Event(k) == [kind |-> k, beta |-> Null, gamma |-> Null]

Init ==
    /\ appMounted = TRUE
    /\ file = Null /\ effFile = Null /\ url = Null /\ objUrl = Null
    /\ live = {} /\ created = 0
    /\ intensity = DefaultIntensity /\ glare = TRUE /\ dragEnabled = FALSE
    /\ isOver = FALSE
    /\ mounted = FALSE /\ mountCount = 0
    /\ mx = Zero /\ my = Zero
    /\ initialOrientation = Null
    /\ armed = FALSE
    /\ listeners = {}
    /\ downSeen = FALSE
    /\ ev = Event("init")


(***************************************************************************)
(* InteractiveCard                                                         *)
(***************************************************************************)
Attached(t) == <<t, mountCount>> \in listeners
OfType(t) == {l \in listeners : l[1] = t}

\* (client - origin) / size, then px * 2 - 1
TiltComponent(client, origin, size) == TimesTwoMinusOne(Rat(client - origin, size))

\* handlePointerMove: bounds is the container's bounding rectangle (nullable)
handlePointerMove(x, y, bounds) ==
    IF bounds = Null
    THEN UNCHANGED <<mx, my>>
    ELSE /\ mx' = TiltComponent(x, bounds[1].left, bounds[1].width)
         /\ my' = TiltComponent(y, bounds[1].top, bounds[1].height)

resetTilt_OnlyY == mx' = mx /\ my' = Zero
resetTilt == mx' = Zero /\ my' = Zero

\* handleTouchMove: touch is e.touches[0] (nullable), bounds as above
handleTouchMove(touch, bounds) ==
    IF touch # Null /\ bounds # Null
    THEN /\ mx' = TiltComponent(touch[1].x, bounds[1].left, bounds[1].width)
         /\ my' = TiltComponent(touch[1].y, bounds[1].top, bounds[1].height)
    ELSE UNCHANGED <<mx, my>>

\* Math.max(-45, Math.min(45, delta))
Clamp_None(delta) == delta
Clamp(delta) == Max(-ClampDeg, Min(ClampDeg, delta))

onDeviceOrientation(beta, gamma) ==
    IF beta = Null \/ gamma = Null
    THEN UNCHANGED <<mx, my, initialOrientation>>
    ELSE IF initialOrientation = Null
    THEN /\ initialOrientation' = Some([beta |-> beta[1], gamma |-> gamma[1]])
         /\ UNCHANGED <<mx, my>>
    ELSE LET deltaGamma == gamma[1] - initialOrientation[1].gamma
             deltaBeta == beta[1] - initialOrientation[1].beta
             g == Clamp(deltaGamma)
             b == Clamp(deltaBeta)
         IN  /\ mx' = Rat(g, ClampDeg)
             /\ my' = Rat(b, ClampDeg)
             /\ UNCHANGED initialOrientation

\* arm: every attached arm closure removes itself; the current mount's one
\* sets its armed flag and clears the baseline
arm ==
    /\ armed' = (IF Attached("pointerdown") THEN TRUE ELSE armed)
    /\ initialOrientation' = (IF Attached("pointerdown") THEN Null ELSE initialOrientation)
    /\ listeners' = listeners \ OfType("pointerdown")

\* listener: registered with { once: true }, so it is removed when it runs
listener_NoArmedCheck ==
    listeners' = (listeners \ OfType("pointermove"))
                   \cup (IF Attached("pointermove")
                         THEN {<<"deviceorientation", mountCount>>} ELSE {})
listener ==
    listeners' = (listeners \ OfType("pointermove"))
                   \cup (IF Attached("pointermove") /\ armed
                         THEN {<<"deviceorientation", mountCount>>} ELSE {})

\* the orientation effect's body and its cleanup, for mount number m
OrientationEffect(ls, m) == ls \cup {<<"pointerdown", m>>, <<"pointermove", m>>}
OrientationCleanup_KeepsOrientation(ls, m) ==
    ls \ {<<"pointermove", m>>, <<"pointerdown", m>>}
OrientationCleanup(ls, m) ==
    ls \ {<<"pointermove", m>>, <<"deviceorientation", m>>, <<"pointerdown", m>>}

CardMount ==
    /\ ~mounted /\ mountCount < MaxMounts
    /\ mounted' = TRUE
    /\ mountCount' = mountCount + 1
    /\ mx' = Zero /\ my' = Zero
    /\ initialOrientation' = Null
    /\ armed' = FALSE
    /\ listeners' = OrientationEffect(listeners, mountCount + 1)
    /\ downSeen' = FALSE
    /\ ev' = Event("mount")
    /\ UNCHANGED appVars

CardUnmount ==
    /\ mounted
    /\ mounted' = FALSE
    /\ listeners' = OrientationCleanup(listeners, mountCount)
    /\ ev' = Event("unmount")
    /\ UNCHANGED <<mountCount, mx, my, initialOrientation, armed, downSeen>>
    /\ UNCHANGED appVars

\* window pointerdown
PointerDown ==
    /\ arm
    /\ downSeen' = (IF mounted THEN TRUE ELSE downSeen)
    /\ ev' = Event("pointerdown")
    /\ UNCHANGED <<mounted, mountCount, mx, my>>
    /\ UNCHANGED appVars

\* pointermove over the card container: the container's handler, then the
\* window listener as the event bubbles
PointerMoveOnCard ==
    /\ mounted
    /\ \E x \in Coords, y \in Coords, r \in Rects : handlePointerMove(x, y, Some(r))
    /\ listener
    /\ ev' = Event("pointermove")
    /\ UNCHANGED <<mounted, mountCount, initialOrientation, armed, downSeen>>
    /\ UNCHANGED appVars

\* pointermove anywhere else in the window
PointerMoveElsewhere ==
    /\ listener
    /\ ev' = Event("pointermove")
    /\ UNCHANGED <<mounted, mountCount, mx, my, initialOrientation, armed, downSeen>>
    /\ UNCHANGED appVars

\* pointerleave, pointercancel, pointerup and touchend on the container
CardReset ==
    /\ mounted
    /\ resetTilt
    /\ \E k \in ResetKinds : ev' = Event(k)
    /\ UNCHANGED <<mounted, mountCount, initialOrientation, armed, listeners, downSeen>>
    /\ UNCHANGED appVars

\* handleTouchStart only prevents the default action
TouchStart ==
    /\ mounted
    /\ ev' = Event("touchstart")
    /\ UNCHANGED cardVars
    /\ UNCHANGED appVars

TouchMove ==
    /\ mounted
    /\ \E x \in Coords, y \in Coords, r \in Rects :
           handleTouchMove(Some([x |-> x, y |-> y]), Some(r))
    /\ ev' = Event("touchmove")
    /\ UNCHANGED <<mounted, mountCount, initialOrientation, armed, listeners, downSeen>>
    /\ UNCHANGED appVars

\* window deviceorientation
DeviceOrientation ==
    /\ \E beta \in OriInputs, gamma \in OriInputs :
          /\ IF Attached("deviceorientation")
             THEN onDeviceOrientation(beta, gamma)
             ELSE UNCHANGED <<mx, my, initialOrientation>>
          /\ ev' = [kind |-> "deviceorientation", beta |-> beta, gamma |-> gamma]
    /\ UNCHANGED <<mounted, mountCount, armed, listeners, downSeen>>
    /\ UNCHANGED appVars

NextCard ==
    \/ CardMount
    \/ CardUnmount
    \/ PointerDown
    \/ PointerMoveOnCard
    \/ PointerMoveElsewhere
    \/ CardReset
    \/ TouchStart
    \/ TouchMove
    \/ DeviceOrientation

SpecCard == Init /\ [][NextCard]_vars


(***************************************************************************)
(* useObjectUrl, ImagePicker and App                                       *)
(***************************************************************************)
\* the effect's cleanup: URL.revokeObjectURL(u) for the locator it captured
EffectCleanup_NoRevoke(lv, ou) == lv
EffectCleanup(lv, ou) == IF ou = Null THEN lv ELSE lv \ {ou[1]}

\* what kind of effect run this is (history only)
EffectKind ==
    IF file = Null THEN "effect-clear"
    ELSE IF objUrl = Null THEN "effect-create" ELSE "effect-replace"

\* React runs the effect of useObjectUrl when its dependency [file] changed:
\* first the previous run's cleanup, then the effect body
FlushEffects ==
    /\ appMounted
    /\ effFile # file
    /\ effFile' = file
    /\ IF file = Null
       THEN /\ live' = EffectCleanup(live, objUrl)
            /\ url' = Null
            /\ objUrl' = Null
            /\ UNCHANGED created
       ELSE /\ created' = created + 1
            /\ live' = EffectCleanup(live, objUrl) \cup {created + 1}
            /\ url' = Some(created + 1)
            /\ objUrl' = Some(created + 1)
    /\ isOver' = (IF file = Null THEN isOver ELSE FALSE)
    /\ ev' = Event(EffectKind)
    /\ UNCHANGED <<appMounted, file, intensity, glare, dragEnabled>>
    /\ UNCHANGED cardVars

\* unmounting the App runs the pending cleanup
AppUnmount ==
    /\ appMounted
    /\ appMounted' = FALSE
    /\ live' = EffectCleanup(live, objUrl)
    /\ objUrl' = Null
    /\ ev' = Event("app-unmount")
    /\ UNCHANGED <<file, effFile, url, created, intensity, glare, dragEnabled, isOver>>
    /\ UNCHANGED cardVars

\* the hook's caller renders with another file handle
HookRender ==
    /\ appMounted
    /\ created < MaxUrls
    /\ \E f \in FileInputs : f # file /\ file' = f
    /\ ev' = Event("render")
    /\ UNCHANGED <<appMounted, effFile, url, objUrl, live, created,
                   intensity, glare, dragEnabled, isOver>>
    /\ UNCHANGED cardVars

NextHook ==
    \/ HookRender
    \/ FlushEffects
    \/ AppUnmount

SpecHook == Init /\ [][NextHook]_vars

\* the picker is rendered while the App has no locator
PickerRendered == appMounted /\ url = Null
PanelRendered == appMounted /\ url # Null

onPick(f) == file' = Some(f)

\* ImagePicker onDrop: f is e.dataTransfer.files?.[0] (nullable)
onDrop(f) ==
    /\ isOver' = FALSE
    /\ IF f # Null /\ StartsWith(f[1].type, ImagePrefix)
       THEN onPick(f[1])
       ELSE UNCHANGED file

\* ImagePicker input onChange: f is e.target.files?.[0] (nullable)
onChange(f) ==
    /\ IF f # Null THEN onPick(f[1]) ELSE UNCHANGED file
    /\ UNCHANGED isOver

DragOver ==
    /\ PickerRendered
    /\ isOver' = TRUE
    /\ ev' = Event("dragover")
    /\ UNCHANGED <<appMounted, file, effFile, url, objUrl, live, created,
                   intensity, glare, dragEnabled>>
    /\ UNCHANGED cardVars

DragLeave ==
    /\ PickerRendered
    /\ isOver' = FALSE
    /\ ev' = Event("dragleave")
    /\ UNCHANGED <<appMounted, file, effFile, url, objUrl, live, created,
                   intensity, glare, dragEnabled>>
    /\ UNCHANGED cardVars

Drop ==
    /\ PickerRendered
    /\ created < MaxUrls
    /\ \E f \in FileInputs : onDrop(f)
    /\ ev' = Event("drop")
    /\ UNCHANGED <<appMounted, effFile, url, objUrl, live, created,
                   intensity, glare, dragEnabled>>
    /\ UNCHANGED cardVars

InputChange ==
    /\ PickerRendered
    /\ created < MaxUrls
    /\ \E f \in FileInputs : onChange(f)
    /\ ev' = Event("change")
    /\ UNCHANGED <<appMounted, effFile, url, objUrl, live, created,
                   intensity, glare, dragEnabled>>
    /\ UNCHANGED cardVars

\* the "Reset" button
ResetClick ==
    /\ file' = Null
    /\ UNCHANGED <<intensity, glare, dragEnabled>>

\* the "Defaults" button
DefaultsClick_AlsoDrag ==
    /\ intensity' = DefaultIntensity /\ glare' = TRUE /\ dragEnabled' = FALSE
    /\ UNCHANGED file
DefaultsClick ==
    /\ intensity' = DefaultIntensity /\ glare' = TRUE
    /\ UNCHANGED <<file, dragEnabled>>

Reset ==
    /\ appMounted
    /\ ResetClick
    /\ ev' = Event("reset")
    /\ UNCHANGED <<appMounted, effFile, url, objUrl, live, created, isOver>>
    /\ UNCHANGED cardVars

Defaults ==
    /\ appMounted
    /\ DefaultsClick
    /\ ev' = Event("defaults")
    /\ UNCHANGED <<appMounted, effFile, url, objUrl, live, created, isOver>>
    /\ UNCHANGED cardVars

\* Slider onValueChange
SetIntensity ==
    /\ PanelRendered
    /\ \E v \in IntensityValues : intensity' = v
    /\ ev' = Event("slider")
    /\ UNCHANGED <<appMounted, file, effFile, url, objUrl, live, created,
                   glare, dragEnabled, isOver>>
    /\ UNCHANGED cardVars

ToggleGlare ==
    /\ PanelRendered
    /\ glare' = ~glare
    /\ ev' = Event("glare")
    /\ UNCHANGED <<appMounted, file, effFile, url, objUrl, live, created,
                   intensity, dragEnabled, isOver>>
    /\ UNCHANGED cardVars

ToggleDrag ==
    /\ PanelRendered
    /\ dragEnabled' = ~dragEnabled
    /\ ev' = Event("drag")
    /\ UNCHANGED <<appMounted, file, effFile, url, objUrl, live, created,
                   intensity, glare, isOver>>
    /\ UNCHANGED cardVars

NextApp ==
    \/ DragOver
    \/ DragLeave
    \/ Drop
    \/ InputChange
    \/ FlushEffects
    \/ Reset
    \/ Defaults
    \/ SetIntensity
    \/ ToggleGlare
    \/ ToggleDrag
    \/ AppUnmount

SpecApp == Init /\ [][NextApp]_vars


(***************************************************************************)
(* Properties                                                              *)
(***************************************************************************)

\* C1: over any sequence of file-handle changes and unmount, at most one
\* locator created by useObjectUrl is live; a step that creates a locator
\* leaves none of the earlier ones live; and once the file handle is null
\* and the effect has run, or the component is unmounted, no locator is live.
C1_OneLiveLocator ==
    /\ [](Cardinality(live) <= 1)
    /\ []((~appMounted \/ (file = Null /\ effFile = file)) => live = {})
    /\ [][(live' \ live # {}) => (live' \cap live = {})]_vars

\* a second locator replaced the first one in a single effect run (A -> B)
C1_Witness ==
    /\ ev.kind = "effect-replace"
    /\ created >= 2
    /\ live = {created}
    /\ url = Some(created)

\* C2: the picker hands a file to onPick (App's setFile) only if its mime
\* type starts with "image/", on the drop path and on the file-input path,
\* so the selected file is never a file of another type.
C2_OnlyImagesPicked ==
    file # Null => StartsWith(file[1].type, ImagePrefix)

\* C3: both components of the tilt signal lie in [-1, 1] in every reachable
\* state.
C3_TiltInUnitRange == InUnit(mx) /\ InUnit(my)

\* C4: right after pointerleave, pointercancel, pointerup or touchend on the
\* container the tilt signal is exactly (0, 0).
C4_ResetZeroesTilt ==
    ev.kind \in ResetKinds => (mx = Zero /\ my = Zero)

\* a touchend reset on a card whose orientation handler is attached and has
\* a baseline, so that all three input sources could have written the signal
C4_Witness ==
    /\ ev.kind = "touchend"
    /\ mx = Zero /\ my = Zero
    /\ initialOrientation # Null
    /\ Attached("deviceorientation")

\* C5: before the first window pointerdown of a mount the orientation
\* handler is not attached, and no deviceorientation event changes the tilt
\* signal or the baseline.
C5_OrientationGated ==
    /\ [](~downSeen => ~Attached("deviceorientation"))
    /\ [][(ev'.kind = "deviceorientation" /\ ~downSeen)
            => UNCHANGED <<mx, my, initialOrientation>>]_vars

\* a valid orientation reading arrives on a mounted card that saw a
\* pointermove but no pointerdown yet
C5_Witness ==
    /\ mounted /\ ~downSeen
    /\ ev.kind = "deviceorientation"
    /\ ev.beta # Null /\ ev.gamma # Null
    /\ ~Attached("pointermove")

\* the reference result of one orientation component for a delta in degrees
RefComponent(delta) ==
    IF delta >= 45 THEN One
    ELSE IF delta <= -45 THEN MinusOne
    ELSE Rat(delta, 45)

\* C6: every deviceorientation event delivered to the attached handler acts
\* as the reference: null beta or gamma changes nothing; without a baseline
\* the reading becomes the baseline and the signal is unchanged; otherwise
\* the baseline is unchanged and the signal is the pair of clamped deltas
\* over 45, so a delta of 90 gives exactly 1 and of -90 exactly -1.
C6_OrientationReference ==
    [][(ev'.kind = "deviceorientation" /\ Attached("deviceorientation")) =>
         IF ev'.beta = Null \/ ev'.gamma = Null
         THEN UNCHANGED <<mx, my, initialOrientation>>
         ELSE IF initialOrientation = Null
         THEN /\ initialOrientation' =
                    Some([beta |-> ev'.beta[1], gamma |-> ev'.gamma[1]])
              /\ UNCHANGED <<mx, my>>
         ELSE /\ initialOrientation' = initialOrientation
              /\ mx' = RefComponent(ev'.gamma[1] - initialOrientation[1].gamma)
              /\ my' = RefComponent(ev'.beta[1] - initialOrientation[1].beta)
              /\ (ev'.gamma[1] - initialOrientation[1].gamma = 90 => mx' = One)
              /\ (ev'.gamma[1] - initialOrientation[1].gamma = -90 => mx' = MinusOne)
              /\ (ev'.beta[1] - initialOrientation[1].beta = 90 => my' = One)
              /\ (ev'.beta[1] - initialOrientation[1].beta = -90 => my' = MinusOne)
      ]_vars

\* a reading 90 degrees of gamma past the baseline gave mx = 1, with an
\* unclamped beta delta of 30 degrees giving my = 2/3
C6_Witness ==
    /\ ev.kind = "deviceorientation"
    /\ Attached("deviceorientation")
    /\ initialOrientation # Null
    /\ ev.beta # Null /\ ev.gamma # Null
    /\ ev.gamma[1] - initialOrientation[1].gamma = 90
    /\ ev.beta[1] - initialOrientation[1].beta = 30
    /\ mx = One
    /\ my = <<2, 3>>

\* C7: after every window pointerdown during a mount the stored baseline is
\* cleared.
C7_EveryPointerDownClearsBaseline ==
    (mounted /\ ev.kind = "pointerdown") => initialOrientation = Null

\* C9: after the first window pointerdown on a mounted card the orientation
\* handler becomes attached, whatever the order of the earlier pointermove
\* and pointerdown events: it is attached, or the listener that attaches it
\* is still registered.
C9_AttachedAfterFirstTap ==
    (mounted /\ downSeen) => (Attached("deviceorientation") \/ Attached("pointermove"))

\* C10: each of the three window listeners is attached at most once at a
\* time, none remains attached after unmount, and no event changes the tilt
\* signal or the baseline of the unmounted card.
C10_ListenerLifecycle ==
    /\ [](\A t \in ListenerTypes : Cardinality(OfType(t)) <= 1)
    /\ [](~mounted => listeners = {})
    /\ [][(~mounted /\ ~mounted') => UNCHANGED <<mx, my, initialOrientation>>]_vars

\* the card was unmounted while listening with a baseline, was not mounted
\* again, and a valid orientation reading arrived afterwards
C10_Witness ==
    /\ ~mounted /\ mountCount >= 1
    /\ armed /\ initialOrientation # Null
    /\ ev.kind = "deviceorientation"
    /\ ev.beta # Null /\ ev.gamma # Null

\* C8: "Defaults" yields intensity 30 and glare on and leaves draggable and
\* the selected file unchanged; "Reset" sets the selected file to null and
\* leaves intensity, glare and draggable unchanged.
C8_DefaultsAndResetFrames ==
    [][/\ (ev'.kind = "defaults" =>
              /\ intensity' = 30 /\ glare' = TRUE
              /\ dragEnabled' = dragEnabled /\ file' = file)
       /\ (ev'.kind = "reset" =>
              /\ file' = Null
              /\ intensity' = intensity /\ glare' = glare
              /\ dragEnabled' = dragEnabled)
      ]_vars

\* "Reset" was clicked with a file selected and all three parameters away
\* from their defaults, which are still in place
C8_Witness ==
    /\ ev.kind = "reset"
    /\ file = Null /\ url # Null
    /\ intensity = SliderMin /\ glare = FALSE /\ dragEnabled = TRUE

====
